---------------------------- MODULE Spec2Model ----------------------------
(***************************************************************************)
(* Authentication core of holesforpoles: the token codec                    *)
(* (app/security.py), the register / login / refresh handlers and the      *)
(* get_current_user dependency (app/endpoints/auth.py), over the users     *)
(* table (app/models.py).                                                  *)
(*                                                                         *)
(* Time is counted in whole seconds since the epoch (now) plus a flag      *)
(* (frac) telling whether the clock's sub-second part is non-zero, since   *)
(* datetime.utcnow() carries microseconds while a token's exp is a whole   *)
(* number of seconds.  tz is the process's local UTC offset in seconds:    *)
(* datetime.fromtimestamp() converts to local time.                        *)
(***************************************************************************)
EXTENDS Integers, Sequences, FiniteSets, TLC

VARIABLES
    users,      \* rows of the users table
    now,        \* UTC clock, whole seconds
    frac,       \* 1 when the clock's sub-second part is non-zero, else 0
    tz,         \* local UTC offset of the process, seconds
    issued,     \* tokens handed out by login / refresh
    last,       \* the last request handled and its response
    lg,         \* the login request in progress, between its two queries
    pc,         \* concurrent register: position of each worker
    rq,         \* concurrent register: the worker's request body
    rs,         \* concurrent register: the worker's response
    tok,        \* codec: the token under test
    enc,        \* codec: the arguments create_access_token was given
    dec         \* codec: what decode_access_token returned or raised

vars == <<users, now, frac, tz, issued, last, lg, pc, rq, rs, tok, enc, dec>>

----------------------------------------------------------------------------
(* Bounds and input sets *)

MaxUsers == 2
MaxTokens == 1
MaxScopes == 1

\* Representative instants: the issue time, and the second at which a token
\* issued at 0 with the default lifetime expires, and the second after.
Instants == {0, 1800, 1801}
\* The instants of the service: the issue time and the second after the
\* default lifetime has run out.
ServiceInstants == {0, 1801}
\* Local UTC offsets: west of Greenwich, UTC, east of Greenwich.
TzOffsets == {-3600, 0, 3600}
\* The offsets the service is run at.
ServiceTzOffsets == {-3600, 0}
Emails == {"alice@x.io", "bob@x.io"}
\* A username is any string of 3 to 50 characters (schemas.UserBase), so it
\* may have the shape of an email address.
Usernames == {"alice", "bob@x.io"}
Passwords == {"Passw0rd1", "Secret22"}
Identifiers == Usernames \cup Emails
Workers == {1, 2}

----------------------------------------------------------------------------
(* Python values that a token subject can be: Union[str, int] *)

PyInt(n) == [t |-> "int", n |-> n, s |-> ""]
PyStr(s) == [t |-> "str", n |-> 0, s |-> s]

Digits == <<"1", "2", "3", "4", "5", "6", "7", "8", "9">>

\* str(subject): the decimal text of an integer, a string unchanged.
str(x) ==
    IF x.t = "int"
    THEN PyStr(IF x.n = 0 THEN "0" ELSE Digits[x.n])
    ELSE x

\* The database's comparison of the integer column users.id with a bound
\* value: text that spells an integer is converted, other text matches no row.
IdEquals(id, v) ==
    IF v.t = "int"
    THEN id = v.n
    ELSE id \in 1..Len(Digits) /\ Digits[id] = v.s

----------------------------------------------------------------------------
(* Configuration: app/security.py *)

SECRET_KEY == "your-secret-key-for-development"
ALGORITHM == "HS256"
ACCESS_TOKEN_EXPIRE_MINUTES == 30
SecondsPerMinute == 60

----------------------------------------------------------------------------
(* Clock *)

\* datetime.utcnow(): naive UTC, with its sub-second part.
utcnow == [sec |-> now, frac |-> frac]

\* datetime.fromtimestamp(ts): naive LOCAL time of a whole-second timestamp.
fromtimestamp(ts) == [sec |-> ts + tz, frac |-> 0]

\* a < b on naive datetimes.
DtLess(a, b) == a.sec < b.sec \/ (a.sec = b.sec /\ a.frac < b.frac)

\* timegm(dt.utctimetuple()): whole seconds, the sub-second part dropped.
timegm(dt) == dt.sec

----------------------------------------------------------------------------
(* Credential hasher *)

\* pwd_context.hash: the digest is a function of the plaintext that
\* verify_password inverts; the salt is read by no handler.
get_password_hash(password) == "$2b$" \o password

verify_password(plain_password, hashed_password) ==
    hashed_password = get_password_hash(plain_password)

----------------------------------------------------------------------------
(* Tokens.  A token is the compact JWS: whether it splits into three       *)
(* segments (form), the key its signature was made with, and the claims    *)
(* its payload carries (fields names the claims present).                  *)

NoToken ==
    [form |-> "none", key |-> "", fields |-> {}, sub |-> PyStr(""),
     exp |-> 0, scopes |-> <<>>]

GarbageToken ==
    [form |-> "garbage", key |-> "", fields |-> {}, sub |-> PyStr(""),
     exp |-> 0, scopes |-> <<>>]

\* jwt.encode(to_encode, key, algorithm): a datetime exp becomes whole seconds.
jwt_encode(sub, expire, scopes, key) ==
    [form |-> "jwt", key |-> key, fields |-> {"sub", "exp", "scopes"},
     sub |-> sub, exp |-> timegm(expire), scopes |-> scopes]

\* create_access_token(subject, expires_delta, scopes); expires_delta = 0
\* stands for a falsy expires_delta (None or a zero timedelta).
create_access_token(subject, expires_delta, scopes) ==
    LET expire ==
            IF expires_delta # 0
            THEN [sec |-> utcnow.sec + expires_delta, frac |-> utcnow.frac]
            ELSE [sec |-> utcnow.sec
                            + ACCESS_TOKEN_EXPIRE_MINUTES * SecondsPerMinute,
                  frac |-> utcnow.frac]
    IN  jwt_encode(str(subject), expire, scopes, SECRET_KEY)

Raised(msg) == [ok |-> FALSE, error |-> msg, sub |-> PyStr(""), exp |-> 0,
                scopes |-> <<>>]
Returned(sub, exp, scopes) ==
    [ok |-> TRUE, error |-> "", sub |-> sub, exp |-> exp, scopes |-> scopes]

\* _validate_exp rejecting the expiry instant itself.
JoseExpiredInclusive(token) == token.exp <= timegm(utcnow)

\* jose's _validate_exp: expired when exp < now in whole seconds.
JoseExpired(token) == token.exp < timegm(utcnow)

\* jwt.decode validating the exp claim before it verifies the signature.
jwt_decode_exp_first(token, key) ==
    IF token.form # "jwt" THEN "Not enough segments"
    ELSE IF "exp" \in token.fields /\ token.exp < timegm(utcnow)
        THEN "Signature has expired."
    ELSE IF token.key # key THEN "Signature verification failed."
    ELSE IF "sub" \in token.fields /\ token.sub.t # "str"
        THEN "Subject must be a string."
    ELSE ""

\* jwt.decode(token, key, algorithms): the segments are split, the signature
\* verified, then the claims validated (exp before sub).  Every failure is a
\* JWTError whose text is returned; "" means the payload was accepted.
jwt_decode(token, key) ==
    IF token.form # "jwt" THEN "Not enough segments"
    ELSE IF token.key # key THEN "Signature verification failed."
    ELSE IF "exp" \in token.fields /\ JoseExpired(token)
        THEN "Signature has expired."
    ELSE IF "sub" \in token.fields /\ token.sub.t # "str"
        THEN "Subject must be a string."
    ELSE ""

\* One line pair of str(pydantic.ValidationError) for a required field that
\* the payload lacks.
FieldRequired(name) ==
    "\n" \o name \o "\n  field required (type=value_error.missing)"

\* TokenPayload(**payload): sub and exp are required, scopes defaults to [].
\* The value is str(ValidationError): the header counting the errors, then
\* the missing fields in the order the class declares them; "" means the
\* payload validates.
ValidationError(token) ==
    IF {"sub", "exp"} \subseteq token.fields THEN ""
    ELSE IF "sub" \in token.fields
        THEN "1 validation error for TokenPayload" \o FieldRequired("exp")
    ELSE IF "exp" \in token.fields
        THEN "1 validation error for TokenPayload" \o FieldRequired("sub")
    ELSE "2 validation errors for TokenPayload"
             \o FieldRequired("sub") \o FieldRequired("exp")

\* The handler's own expiry test:
\*   datetime.fromtimestamp(token_data.exp) < datetime.utcnow()
CodeExpired(token) == DtLess(fromtimestamp(token.exp), utcnow)

decode_access_token(token) ==
    LET e == jwt_decode(token, SECRET_KEY) IN
    IF e # "" THEN Raised("Invalid token: " \o e)
    ELSE IF ValidationError(token) # ""
        THEN Raised("Invalid token: " \o ValidationError(token))
    ELSE IF CodeExpired(token) THEN Raised("Token expired")
    ELSE Returned(token.sub, token.exp,
                  IF "scopes" \in token.fields THEN token.scopes ELSE <<>>)

----------------------------------------------------------------------------
(* The users table: app/models.py *)

NoUser ==
    [id |-> 0, username |-> "", email |-> "", hashed_password |-> "",
     is_active |-> FALSE]

\* models.User(email=..., username=..., hashed_password=...): the id is the
\* next integer primary key, is_active takes the column default True.
NewUser(email, username, hashed_password) ==
    [id |-> Cardinality(users) + 1, username |-> username, email |-> email,
     hashed_password |-> hashed_password, is_active |-> TRUE]

\* query.first(): the row of lowest primary key, or None.
first(rows) ==
    IF rows = {} THEN NoUser
    ELSE CHOOSE u \in rows : \A v \in rows : u.id <= v.id

ByEmail(email) == first({u \in users : u.email = email})
ByUsername(username) == first({u \in users : u.username = username})
ById(v) == first({u \in users : IdEquals(u.id, v)})

\* The unique indexes on users.username and users.email, enforced when the
\* insert is flushed.
UniqueViolation(row) ==
    \E u \in users : u.email = row.email \/ u.username = row.username

----------------------------------------------------------------------------
(* HTTP responses: status, the body's detail, the user a 200/201 carries   *)
(* (0 for none), the access token a token response carries.               *)

Http(status, detail) ==
    [status |-> status, detail |-> detail, user |-> 0,
     access_token |-> NoToken]
UserResponse(status, user) ==
    [status |-> status, detail |-> "", user |-> user.id,
     access_token |-> NoToken]
TokenResponse(user, token) ==
    [status |-> 200, detail |-> "", user |-> user.id, access_token |-> token]

\* main.general_exception_handler: any exception a handler lets through.
InternalServerError == Http(500, "Internal server error")

----------------------------------------------------------------------------
(* Handlers: app/endpoints/auth.py *)

\* db.add(user); db.commit(); db.refresh(user); return user.  A violated
\* unique index raises IntegrityError out of the handler.
commit(row) ==
    IF UniqueViolation(row) THEN InternalServerError
    ELSE UserResponse(201, row)

\* register without the duplicate-username query.
register_no_username_check(email, username, password) ==
    IF ByEmail(email) # NoUser THEN Http(400, "Email already registered")
    ELSE commit(NewUser(email, username, get_password_hash(password)))

register(email, username, password) ==
    IF ByEmail(email) # NoUser THEN Http(400, "Email already registered")
    ELSE IF ByUsername(username) # NoUser
        THEN Http(400, "Username already taken")
    ELSE commit(NewUser(email, username, get_password_hash(password)))

\* login reads the table twice and then answers from the row it holds:
\* login_by_username is the query of line 133, login_by_email the fallback
\* query of lines 136-137, login_respond the rest of the handler (140-161),
\* which reads no more from the database.  Other requests may be committed
\* between the two queries.

\* user = db.query(User).filter(User.username == form_data.username).first()
login_by_username(identifier) == ByUsername(identifier)

\* A fallback that lets an email match override the username match.
login_by_email_overriding(user, identifier) ==
    IF ByEmail(identifier) # NoUser THEN ByEmail(identifier) ELSE user

\* if not user: user = db.query(User).filter(User.email == ...).first()
login_by_email(user, identifier) ==
    IF user = NoUser THEN ByEmail(identifier) ELSE user

\* An answer that tells "no such user" from "wrong password".
login_respond_enumerating(user, password) ==
    IF user = NoUser THEN Http(401, "User not found")
    ELSE IF ~verify_password(password, user.hashed_password)
    THEN Http(401, "Incorrect username or password")
    ELSE IF ~user.is_active THEN Http(401, "Inactive user")
    ELSE TokenResponse(user, create_access_token(PyInt(user.id), 0, <<>>))

\* An answer without the is_active test.
login_respond_no_active_check(user, password) ==
    IF user = NoUser \/ ~verify_password(password, user.hashed_password)
    THEN Http(401, "Incorrect username or password")
    ELSE TokenResponse(user, create_access_token(PyInt(user.id), 0, <<>>))

\* user is the row object the queries returned: its columns are those read
\* at query time.
login_respond(user, password) ==
    IF user = NoUser \/ ~verify_password(password, user.hashed_password)
    THEN Http(401, "Incorrect username or password")
    ELSE IF ~user.is_active THEN Http(401, "Inactive user")
    ELSE TokenResponse(user, create_access_token(PyInt(user.id), 0, <<>>))

get_current_user(token) ==
    LET token_data == decode_access_token(token) IN
    IF ~token_data.ok
    THEN Http(401, "Could not validate credentials: " \o token_data.error)
    ELSE LET user == ById(token_data.sub) IN
         IF user = NoUser THEN Http(401, "User not found")
         ELSE IF ~user.is_active THEN Http(401, "Inactive user")
         ELSE UserResponse(200, user)

get_current_user_info(token) == get_current_user(token)

refresh_token(token) ==
    LET current_user == get_current_user(token) IN
    IF current_user.status # 200 THEN current_user
    ELSE TokenResponse([id |-> current_user.user],
                       create_access_token(PyInt(current_user.user), 0, <<>>))

----------------------------------------------------------------------------
(* The service.  register, me and refresh requests are handled one after   *)
(* another, each in one step.  A login request takes two steps, one per    *)
(* round of queries, and requests served by other worker processes are     *)
(* handled between them.                                                   *)

\* found is, for a login, the row its username query returned.
Request(op, ident, username, password, token, resp) ==
    [op |-> op, ident |-> ident, username |-> username,
     password |-> password, token |-> token, resp |-> resp,
     found |-> NoUser]

NoRequest == Request("none", "", "", "", NoToken, Http(0, ""))

NoEnc == [made |-> FALSE, subject |-> PyStr(""), expires_delta |-> 0,
          scopes |-> <<>>, now |-> 0, frac |-> 0]
NoDec == [done |-> FALSE, token |-> NoToken, r |-> Raised(""), now |-> 0,
          frac |-> 0]

\* A token whose payload is kept and whose signature no longer matches.
Tamper(t) == [t EXCEPT !.key = "attacker-key"]

\* What a client can put in the Authorization header: a token it was given,
\* such a token with its signature broken, or text that is no token.
Presentable == issued \cup {Tamper(t) : t \in issued} \cup {GarbageToken}

\* The tokens clients hold after being handed t: at most MaxTokens, old ones
\* may be thrown away.
Holding(t) ==
    {h \in SUBSET (issued \cup {t}) : t \in h /\ Cardinality(h) <= MaxTokens}

\* schemas.UserCreate as the register handler reads it.
UserCreate(email, username, password) ==
    [email |-> email, username |-> username, password |-> password]
NoBody == UserCreate("", "", "")

IdleWorkers ==
    /\ pc = [w \in Workers |-> "idle"]
    /\ rq = [w \in Workers |-> NoBody]
    /\ rs = [w \in Workers |-> Http(0, "")]

IdleCodec == tok = NoToken /\ enc = NoEnc /\ dec = NoDec

\* A login between its two queries: form_data.username and the row the
\* username query returned.
LoginState(username, user) ==
    [busy |-> TRUE, username |-> username, user |-> user]
NoLogin == [LoginState("", NoUser) EXCEPT !.busy = FALSE]

Init ==
    /\ users = {}
    /\ now = 0
    /\ frac \in {0, 1}
    /\ tz \in ServiceTzOffsets
    /\ issued = {}
    /\ last = NoRequest
    /\ lg = NoLogin
    /\ IdleWorkers
    /\ IdleCodec

Register(email, username, password) ==
    LET resp == register(email, username, password) IN
    /\ resp.status = 201 => Cardinality(users) < MaxUsers
    /\ users' = IF resp.status = 201
                THEN users \cup
                     {NewUser(email, username, get_password_hash(password))}
                ELSE users
    /\ last' = Request("register", email, username, "", NoToken, resp)
    /\ UNCHANGED <<lg, now, frac, tz, issued, pc, rq, rs, tok, enc, dec>>

\* auth.py 133: the request is received and the username query runs.
LoginQuery(identifier) ==
    /\ ~lg.busy
    /\ lg' = LoginState(identifier, login_by_username(identifier))
    /\ UNCHANGED <<users, now, frac, tz, issued, last, pc, rq, rs, tok, enc,
                   dec>>

\* auth.py 136-161: the fallback query, the checks and the answer.
\* form_data.password is first read at line 140.
LoginRespond(password) ==
    LET user == login_by_email(lg.user, lg.username)
        resp == login_respond(user, password)
    IN  /\ lg.busy
        /\ last' = [Request("login", lg.username, "", password, NoToken,
                            resp) EXCEPT !.found = lg.user]
        /\ IF resp.status = 200
           THEN issued' \in Holding(resp.access_token)
           ELSE issued' = issued
        /\ lg' = NoLogin
        /\ UNCHANGED <<users, now, frac, tz, pc, rq, rs, tok, enc, dec>>

Me(token) ==
    /\ last' = Request("me", "", "", "", token, get_current_user_info(token))
    /\ UNCHANGED <<lg, users, now, frac, tz, issued, pc, rq, rs, tok, enc,
                 dec>>

Refresh(token) ==
    LET resp == refresh_token(token) IN
    /\ last' = Request("refresh", "", "", "", token, resp)
    /\ IF resp.status = 200
       THEN issued' \in Holding(resp.access_token)
       ELSE issued' = issued
    /\ UNCHANGED <<lg, users, now, frac, tz, pc, rq, rs, tok, enc, dec>>

\* The is_active column set to False by an administrator.
Deactivate(u) ==
    /\ u.is_active
    /\ users' = (users \ {u}) \cup {[u EXCEPT !.is_active = FALSE]}
    /\ last' = Request("deactivate", "", u.username, "", NoToken, Http(0, ""))
    /\ UNCHANGED <<lg, now, frac, tz, issued, pc, rq, rs, tok, enc, dec>>

\* The clock moves forward.
Tick(t, f) ==
    /\ t > now \/ (t = now /\ f > frac)
    /\ now' = t
    /\ frac' = f
    /\ UNCHANGED <<lg, users, tz, issued, last, pc, rq, rs, tok, enc, dec>>

Next ==
    \/ \E e \in Emails, n \in Usernames, p \in Passwords : Register(e, n, p)
    \/ \E i \in Identifiers : LoginQuery(i)
    \/ \E p \in Passwords : LoginRespond(p)
    \/ \E t \in Presentable : Me(t)
    \/ \E t \in Presentable : Refresh(t)
    \/ \E u \in users : Deactivate(u)
    \/ \E t \in ServiceInstants, f \in {0, 1} : Tick(t, f)

Spec == Init /\ [][Next]_vars

----------------------------------------------------------------------------
(* Concurrent registration: each worker process runs one register request  *)
(* against the shared database, its queries and its commit interleaved     *)
(* with the other worker's.                                                *)

InitRace ==
    /\ users = {}
    /\ now = 0
    /\ frac = 0
    /\ tz = 0
    /\ issued = {}
    /\ last = NoRequest
    /\ lg = NoLogin
    /\ IdleWorkers
    /\ IdleCodec

RaceStart(w, email, username, password) ==
    /\ pc[w] = "idle"
    /\ rq' = [rq EXCEPT ![w] = UserCreate(email, username, password)]
    /\ pc' = [pc EXCEPT ![w] = "check_email"]
    /\ UNCHANGED <<lg, users, now, frac, tz, issued, last, rs, tok, enc, dec>>

\* auth.py 83-88: the duplicate-email query.
RaceCheckEmail(w) ==
    /\ pc[w] = "check_email"
    /\ IF ByEmail(rq[w].email) # NoUser
       THEN /\ rs' = [rs EXCEPT ![w] = Http(400, "Email already registered")]
            /\ pc' = [pc EXCEPT ![w] = "done"]
       ELSE /\ rs' = rs
            /\ pc' = [pc EXCEPT ![w] = "check_username"]
    /\ UNCHANGED <<lg, users, now, frac, tz, issued, last, rq, tok, enc, dec>>

\* auth.py 91-96: the duplicate-username query.
RaceCheckUsername(w) ==
    /\ pc[w] = "check_username"
    /\ IF ByUsername(rq[w].username) # NoUser
       THEN /\ rs' = [rs EXCEPT ![w] = Http(400, "Username already taken")]
            /\ pc' = [pc EXCEPT ![w] = "done"]
       ELSE /\ rs' = rs
            /\ pc' = [pc EXCEPT ![w] = "commit"]
    /\ UNCHANGED <<lg, users, now, frac, tz, issued, last, rq, tok, enc, dec>>

\* auth.py 99-111: hash, add, commit, refresh, return.
RaceCommit(w) ==
    LET row == NewUser(rq[w].email, rq[w].username,
                       get_password_hash(rq[w].password))
        resp == commit(row)
    IN  /\ pc[w] = "commit"
        /\ users' = IF resp.status = 201 THEN users \cup {row} ELSE users
        /\ rs' = [rs EXCEPT ![w] = resp]
        /\ pc' = [pc EXCEPT ![w] = "done"]
        /\ UNCHANGED <<lg, now, frac, tz, issued, last, rq, tok, enc, dec>>

NextRace ==
    \/ \E w \in Workers, e \in Emails, n \in Usernames, p \in Passwords :
           RaceStart(w, e, n, p)
    \/ \E w \in Workers : RaceCheckEmail(w)
    \/ \E w \in Workers : RaceCheckUsername(w)
    \/ \E w \in Workers : RaceCommit(w)

SpecRace == InitRace /\ [][NextRace]_vars

----------------------------------------------------------------------------
(* The token codec alone: create_access_token and decode_access_token      *)
(* applied to inputs drawn from bounded sets.                              *)

Subjects == {PyInt(1), PyStr("1"), PyStr("alice")}
ScopeNames == {"read", "write"}
ScopeLists == UNION {[1..n -> ScopeNames] : n \in 0..MaxScopes}
\* expires_delta in seconds; 0 is the falsy value that selects the default.
Deltas == {0, 1, 1800, 7200}

\* Tokens made outside create_access_token: any key, any subset of claims.
ForgedTokens ==
    [form : {"jwt"}, key : {SECRET_KEY, "attacker-key"},
     fields : {{"sub", "exp", "scopes"}, {"sub", "exp"}, {"sub"}, {"exp"}},
     sub : {PyStr("1"), PyInt(1)}, exp : {0, 1800, 1801},
     scopes : {<<>>}]
    \cup {GarbageToken}

InitCodec ==
    /\ users = {}
    /\ now \in Instants
    /\ frac \in {0, 1}
    /\ tz \in TzOffsets
    /\ issued = {}
    /\ last = NoRequest
    /\ lg = NoLogin
    /\ IdleWorkers
    /\ IdleCodec

CodecCreate(subject, expires_delta, scopes) ==
    /\ tok' = create_access_token(subject, expires_delta, scopes)
    /\ enc' = [made |-> TRUE, subject |-> subject,
               expires_delta |-> expires_delta, scopes |-> scopes,
               now |-> now, frac |-> frac]
    /\ dec' = NoDec
    /\ UNCHANGED <<lg, users, now, frac, tz, issued, last, pc, rq, rs>>

CodecForge(t) ==
    /\ tok' = t
    /\ enc' = NoEnc
    /\ dec' = NoDec
    /\ UNCHANGED <<lg, users, now, frac, tz, issued, last, pc, rq, rs>>

CodecTamper ==
    /\ tok.form = "jwt"
    /\ tok.key = SECRET_KEY
    /\ tok' = Tamper(tok)
    /\ dec' = NoDec
    /\ UNCHANGED <<lg, users, now, frac, tz, issued, last, pc, rq, rs, enc>>

CodecDecode ==
    /\ tok # NoToken
    /\ dec' = [done |-> TRUE, token |-> tok, r |-> decode_access_token(tok),
               now |-> now, frac |-> frac]
    /\ UNCHANGED <<lg, users, now, frac, tz, issued, last, pc, rq, rs, tok,
                 enc>>

CodecTick(t, f) ==
    /\ t > now \/ (t = now /\ f > frac)
    /\ now' = t
    /\ frac' = f
    /\ UNCHANGED <<lg, users, tz, issued, last, pc, rq, rs, tok, enc, dec>>

NextCodec ==
    \/ \E s \in Subjects, d \in Deltas, l \in ScopeLists : CodecCreate(s, d, l)
    \/ \E t \in ForgedTokens : CodecForge(t)
    \/ CodecTamper
    \/ CodecDecode
    \/ \E t \in Instants, f \in {0, 1} : CodecTick(t, f)

SpecCodec == InitCodec /\ [][NextCodec]_vars

----------------------------------------------------------------------------
(* Vocabulary of the properties *)

InvalidCredentials == Http(401, "Incorrect username or password")
InactiveAccount == Http(401, "Inactive user")
DuplicateEmail == Http(400, "Email already registered")
DuplicateUsername == Http(400, "Username already taken")

\* While last is a login, no row has been written since the login was
\* answered (every write is itself recorded in last), so users is the table
\* the login answered from.

\* The row a login answers from: the one its username query returned, else
\* the one with that email when the fallback query ran.
Resolved ==
    IF last.found # NoUser THEN last.found
    ELSE IF \E u \in users : u.email = last.ident
    THEN CHOOSE u \in users : u.email = last.ident
    ELSE NoUser

\* The identifier of the login is nobody's username and nobody's email.
MatchesNobody ==
    \A u \in users : u.username # last.ident /\ u.email # last.ident

\* p is the password u registered with.
OwnPassword(u, p) == u.hashed_password = get_password_hash(p)

WellSigned(t) == t.form = "jwt" /\ t.key = SECRET_KEY
WellFormed(t) == {"sub", "exp"} \subseteq t.fields /\ t.sub.t = "str"

\* The failure kinds of decode, told apart by the text of the ValueError.
ExpiredErrors == {"Token expired", "Invalid token: Signature has expired."}
SignatureErrors == {"Invalid token: Signature verification failed."}
MalformedErrors ==
    {"Invalid token: Not enough segments",
     "Invalid token: Subject must be a string.",
     "Invalid token: 1 validation error for TokenPayload"
         \o FieldRequired("exp"),
     "Invalid token: 1 validation error for TokenPayload"
         \o FieldRequired("sub"),
     "Invalid token: 2 validation errors for TokenPayload"
         \o FieldRequired("sub") \o FieldRequired("exp")}
IsExpired(r) == ~r.ok /\ r.error \in ExpiredErrors

\* The expiry create_access_token was asked for, in whole seconds.
EncExpiry ==
    enc.now + (IF enc.expires_delta # 0 THEN enc.expires_delta
               ELSE ACCESS_TOKEN_EXPIRE_MINUTES * SecondsPerMinute)

----------------------------------------------------------------------------
(* C1 *)

\* C1: when two concurrent register requests carry the same email (or, with
\* different emails, the same username), exactly one gets 201 and the other
\* gets the DuplicateEmail (DuplicateUsername) response.
C1_RaceLoserSeesDuplicate ==
    \A w1, w2 \in Workers :
        (w1 # w2 /\ pc[w1] = "done" /\ pc[w2] = "done") =>
            /\ rq[w1].email = rq[w2].email =>
                   \/ rs[w1].status = 201 /\ rs[w2] = DuplicateEmail
                   \/ rs[w2].status = 201 /\ rs[w1] = DuplicateEmail
            /\ (rq[w1].email # rq[w2].email
                /\ rq[w1].username = rq[w2].username) =>
                   \/ rs[w1].status = 201 /\ rs[w2] = DuplicateUsername
                   \/ rs[w2].status = 201 /\ rs[w1] = DuplicateUsername

----------------------------------------------------------------------------
(* C2 *)

\* C2: the Guard, given a correctly signed, unexpired token whose subject is
\* a user that is now inactive, answers InactiveAccount; and it never
\* returns an inactive user.
C2_GuardRejectsInactive ==
    /\ (/\ last.op = "me"
        /\ WellSigned(last.token)
        /\ WellFormed(last.token)
        /\ last.token.exp > now
        /\ ById(last.token.sub) # NoUser
        /\ ~ById(last.token.sub).is_active)
       => last.resp = InactiveAccount
    /\ (last.op = "me" /\ last.resp.status = 200)
       => \E u \in users : u.id = last.resp.user /\ u.is_active

----------------------------------------------------------------------------
(* C3 *)

\* C3: in every store state, a login whose identifier matches no user and a
\* login whose identifier matches a user but whose password is not that
\* user's are given one and the same response: status 401, detail "Incorrect
\* username or password", no token.
C3_LoginFailuresIdentical ==
    last.op = "login" =>
        /\ MatchesNobody
           => (last.resp = InvalidCredentials
               /\ last.resp.access_token = NoToken)
        /\ (Resolved # NoUser /\ ~OwnPassword(Resolved, last.password))
           => (last.resp = InvalidCredentials
               /\ last.resp.access_token = NoToken)

\* A login with a wrong password for an existing user has been answered, in
\* a store where another identifier matches nobody.
C3_Witness ==
    /\ last.op = "login"
    /\ Resolved # NoUser
    /\ ~OwnPassword(Resolved, last.password)
    /\ last.resp.status = 401
    /\ \E i \in Identifiers :
           \A u \in users : u.username # i /\ u.email # i

----------------------------------------------------------------------------
(* C4 *)

\* The bearer-token response login gives for user u at this instant.
LoggedInAs(resp, u) ==
    /\ resp.status = 200
    /\ resp.user = u.id
    /\ WellSigned(resp.access_token)
    /\ resp.access_token.sub = str(PyInt(u.id))
    /\ IdEquals(u.id, resp.access_token.sub)

\* Ids are handed out in registration order: when the username query of the
\* login returned a row, every user whose id is not greater was registered
\* before the login began.

\* C4 as stated: for every active user registered before the login, a login
\* with the user's own password and the user's username, and likewise one
\* with the user's email, succeeds with a token whose subject is that user.
C4_LoginByUsernameOrEmail ==
    \A u \in users :
        (last.op = "login" /\ u.is_active /\ OwnPassword(u, last.password))
        => /\ (last.ident = u.username /\ last.found # NoUser)
              => LoggedInAs(last.resp, u)
           /\ (last.ident = u.email
               /\ (last.found = NoUser \/ u.id <= last.found.id))
              => LoggedInAs(last.resp, u)

\* C4 amended: a login by username succeeds; a login by email succeeds when
\* the username query of the login found no other user holding that email as
\* username; when it found such a user v, v is the one resolved: the login
\* succeeds as v if the password is also v's and v is active, and is
\* rejected otherwise.  The token's sub claim is the decimal text of the
\* user's id.
C4_LoginByUsernameOrUnshadowedEmail ==
    \A u \in users :
        (last.op = "login" /\ u.is_active /\ OwnPassword(u, last.password))
        => /\ (last.ident = u.username /\ last.found # NoUser)
              => LoggedInAs(last.resp, u)
           /\ (last.ident = u.email
               /\ (last.found = NoUser \/ last.found.id = u.id))
              => LoggedInAs(last.resp, u)
           /\ (last.ident = u.email
               /\ last.found # NoUser /\ last.found.id # u.id)
              => IF ~OwnPassword(last.found, last.password)
                 THEN last.resp = InvalidCredentials
                 ELSE IF ~last.found.is_active
                 THEN last.resp = InactiveAccount
                 ELSE LoggedInAs(last.resp, last.found)

\* A login by email has been answered with a token for the user of that
\* email, although another user, registered while the login was between its
\* two queries, holds that email as username.
C4_Witness ==
    /\ last.op = "login"
    /\ last.found = NoUser
    /\ \E u, v \in users :
           /\ u.email = last.ident
           /\ v.username = last.ident
           /\ v # u
           /\ u.is_active
           /\ LoggedInAs(last.resp, u)

----------------------------------------------------------------------------
(* C5 *)

\* C5 as stated: decode of a correctly signed, well-formed token fails with
\* Expired whenever its exp is at or before the current time, the instant
\* exp = now included, and returns a payload only when exp is strictly in
\* the future.
C5_ExpiredAtOrBeforeNow ==
    (dec.done /\ WellSigned(dec.token) /\ WellFormed(dec.token)) =>
        /\ dec.token.exp <= dec.now => IsExpired(dec.r)
        /\ dec.r.ok => dec.token.exp > dec.now

\* C5 amended: decode of a correctly signed, well-formed token fails with
\* Expired whenever its exp is strictly before the current time in whole
\* seconds, and returns a payload (the token's own) only when exp is at or
\* after it; at the instant exp = now the comparison is strict and the token
\* is still accepted (local zone at or east of UTC).
C5_ExpiredStrictlyBeforeNow ==
    (dec.done /\ WellSigned(dec.token) /\ WellFormed(dec.token)) =>
        /\ dec.token.exp < dec.now => IsExpired(dec.r)
        /\ dec.r.ok =>
               /\ dec.token.exp >= dec.now
               /\ dec.r.sub = dec.token.sub
               /\ dec.r.exp = dec.token.exp
        /\ (dec.token.exp = dec.now /\ dec.frac = 0 /\ tz >= 0) => dec.r.ok

\* A token made by create_access_token has been decoded at the very instant
\* it expires and was accepted.
C5_Witness ==
    /\ dec.done
    /\ enc.made
    /\ WellSigned(dec.token)
    /\ dec.token.exp = dec.now
    /\ dec.frac = 0
    /\ dec.r.ok

----------------------------------------------------------------------------
(* C6 *)

\* C6 as stated: decode of a token whose exp is in the past reports Expired
\* whether or not the signature is valid.
C6_ExpiredRegardlessOfSignature ==
    (/\ dec.done
     /\ dec.token.form = "jwt"
     /\ "exp" \in dec.token.fields
     /\ dec.token.exp < dec.now)
    => IsExpired(dec.r)

\* C6 amended: decode of a token whose exp is in the past reports Expired
\* when the signature is valid and InvalidSignature when it is not; a token
\* that does not split into segments, or a correctly signed unexpired one
\* that lacks sub or exp or whose sub is no string, reports Malformed; and
\* the texts of the three kinds are disjoint.
C6_SignatureCheckedBeforeExpiry ==
    /\ ExpiredErrors \cap SignatureErrors = {}
    /\ ExpiredErrors \cap MalformedErrors = {}
    /\ SignatureErrors \cap MalformedErrors = {}
    /\ dec.done =>
        /\ (/\ WellSigned(dec.token)
            /\ "exp" \in dec.token.fields
            /\ dec.token.exp < dec.now)
           => IsExpired(dec.r)
        /\ (dec.token.form = "jwt" /\ dec.token.key # SECRET_KEY)
           => (~dec.r.ok /\ dec.r.error \in SignatureErrors)
        /\ dec.token.form # "jwt"
           => (~dec.r.ok /\ dec.r.error \in MalformedErrors)
        /\ (/\ WellSigned(dec.token)
            /\ ~WellFormed(dec.token)
            /\ ("exp" \in dec.token.fields => dec.token.exp >= dec.now))
           => (~dec.r.ok /\ dec.r.error \in MalformedErrors)

\* An expired token with a broken signature has been decoded and reported as
\* a signature failure.
C6_Witness ==
    /\ dec.done
    /\ dec.token.form = "jwt"
    /\ dec.token.key # SECRET_KEY
    /\ "exp" \in dec.token.fields
    /\ dec.token.exp < dec.now
    /\ dec.r.error \in SignatureErrors

----------------------------------------------------------------------------
(* C7 *)

\* C7: for every subject (string or integer), scope list and expiry in the
\* future, decoding the token create_access_token made from them returns a
\* payload with the same subject, scopes and expiry.
C7_RoundTrip ==
    (/\ enc.made
     /\ dec.done
     /\ WellSigned(dec.token)
     /\ dec.now = enc.now
     /\ dec.frac = enc.frac
     /\ EncExpiry > enc.now)
    => /\ dec.r.ok
       /\ dec.r.sub = enc.subject
       /\ dec.r.scopes = enc.scopes
       /\ dec.r.exp = EncExpiry

----------------------------------------------------------------------------
(* C8 *)

\* C8: the Guard answers every token that fails decoding, whatever the kind
\* of failure, with status 401 and one and the same body.
C8_DecodeFailuresIndistinguishable ==
    \A t1, t2 \in Presentable :
        (~decode_access_token(t1).ok /\ ~decode_access_token(t2).ok) =>
            /\ get_current_user(t1).status = 401
            /\ get_current_user(t1) = get_current_user(t2)

----------------------------------------------------------------------------
(* C9 *)

\* C9: in every state reached by register calls handled one after another,
\* no two users share an email and no two share a username; a register whose
\* email is stored is answered DuplicateEmail, one whose email is new and
\* whose username is stored is answered DuplicateUsername, and a rejected
\* register leaves the stored rows as they were.
C9_UniqueAndRejected ==
    /\ [](/\ \A u, v \in users :
                 (u.email = v.email \/ u.username = v.username) => u = v
          /\ \A e \in Emails, n \in Usernames, p \in Passwords :
                 /\ (\E u \in users : u.email = e)
                    => register(e, n, p) = DuplicateEmail
                 /\ ((\A u \in users : u.email # e)
                     /\ (\E u \in users : u.username = n))
                    => register(e, n, p) = DuplicateUsername
          /\ last.op = "register" =>
                 \/ last.resp.status = 201
                 \/ last.resp \in {DuplicateEmail, DuplicateUsername})
    /\ [][(last'.op = "register" /\ last'.resp.status # 201)
          => users' = users]_vars

\* A register with a fresh email and a username already stored has been
\* answered DuplicateUsername.
C9_Witness ==
    /\ last.op = "register"
    /\ last.resp = DuplicateUsername
    /\ \A u \in users : u.email # last.ident
    /\ \E u \in users : u.username = last.username

----------------------------------------------------------------------------
(* C10 *)

\* C10 as stated: a login whose identifier resolves to an inactive user is
\* answered InactiveAccount and issues no token; login and refresh issue a
\* token only for a user that exists and was active when the call read it.
C10_InactiveLoginRejected ==
    /\ (last.op = "login" /\ Resolved # NoUser /\ ~Resolved.is_active)
       => last.resp = InactiveAccount
    /\ (last.op = "login" /\ last.resp.access_token # NoToken)
       => /\ Resolved.is_active
          /\ \E u \in users : u.id = last.resp.user /\ u.id = Resolved.id
    /\ \A t \in Presentable :
           refresh_token(t).access_token # NoToken
           => \E u \in users : u.id = refresh_token(t).user /\ u.is_active

\* C10 amended: a login whose identifier resolves to an inactive user is
\* answered InactiveAccount when the password is that user's, and
\* InvalidCredentials when it is not, and issues no token either way; login
\* and refresh issue a token only for a user that exists and whose row was
\* active when the call read it.
C10_InactiveLoginRejectedAfterPassword ==
    /\ (last.op = "login" /\ Resolved # NoUser /\ ~Resolved.is_active)
       => /\ last.resp.access_token = NoToken
          /\ last.resp = IF OwnPassword(Resolved, last.password)
                         THEN InactiveAccount
                         ELSE InvalidCredentials
    /\ (last.op = "login" /\ last.resp.access_token # NoToken)
       => /\ Resolved.is_active
          /\ \E u \in users : u.id = last.resp.user /\ u.id = Resolved.id
    /\ \A t \in Presentable :
           refresh_token(t).access_token # NoToken
           => \E u \in users : u.id = refresh_token(t).user /\ u.is_active
    /\ \A t \in issued : \E u \in users : IdEquals(u.id, t.sub)

\* A login with the right password of a deactivated user has been answered
\* InactiveAccount.
C10_Witness ==
    /\ last.op = "login"
    /\ Resolved # NoUser
    /\ ~Resolved.is_active
    /\ OwnPassword(Resolved, last.password)
    /\ last.resp = InactiveAccount

=============================================================================
